---- MODULE Spec2Model ----
(***************************************************************************)
(* Derived-address authorization and cross-program validation of the      *)
(* Anker (dual-asset) and Anchor (single-asset) instance records:         *)
(* src/anker/src/state.rs and src/anchor/src/state.rs.                    *)
(*                                                                         *)
(* A Pubkey is a sequence of 32 bytes.  An AccountInfo is a record         *)
(* [key, owner, data].  The outcome of a call is [kind, diag]: kind is     *)
(* "Ok", the name of the error value returned, or "Abort" when the call    *)
(* panics; diag is the msg! emitted by the call ("none" when it emits      *)
(* none).                                                                  *)
(***************************************************************************)
EXTENDS Integers, Sequences, FiniteSets, TLC

VARIABLES anker, anchor, call, result, account, loaded, reinvoked, returned,
          opts, args, config, process, got

vars ==
    <<anker, anchor, call, result, account, loaded, reinvoked, returned,
      opts, args, config, process, got>>

configVars == <<opts, args, config, process, got>>

-----------------------------------------------------------------------------
(* Bounds of the model. *)

\* Number of distinct candidate addresses a caller may supply.
NumKeys == 3

\* Number of distinct bump-seed bytes the records are drawn from.
NumBumps == 2

\* How many accounts of a SellRewardsAccountsInfo bundle are tampered at once.
MaxTampered == 2

\* How far (in bytes) an account buffer may be off the record's length.
MaxPad == 1

-----------------------------------------------------------------------------
(* Addresses. *)

PUBKEY_BYTES == 32

Key(n) == [i \in 1..PUBKEY_BYTES |-> IF i = 1 THEN n ELSE 0]

Keys == {Key(n) : n \in 0..(NumKeys - 1)}

\* The candidate address with byte i changed.
Tamper(k, i) == [k EXCEPT ![i] = (k[i] + 1) % 256]

TamperedBytes == {1, 16, PUBKEY_BYTES}

Bumps == {255 - i : i \in 0..(NumBumps - 1)}

\* spl_token::id()
SplTokenId == Key(200)

\* Some program that is not the token program.
ForeignProgramId == Key(201)

AnkerProgramId == Key(210)

AnchorProgramId == Key(211)

ProgramIds == {AnkerProgramId, AnchorProgramId}

\* Role labels (seeds) of the derived accounts.
ANKER_MINT_AUTHORITY ==
    <<109, 105, 110, 116, 95, 97, 117, 116, 104, 111, 114, 105, 116, 121>>

ANKER_RESERVE_AUTHORITY ==
    <<114, 101, 115, 101, 114, 118, 101, 95, 97, 117, 116, 104, 111, 114, 105,
      116, 121>>

ANKER_STSOL_RESERVE_ACCOUNT ==
    <<115, 116, 115, 111, 108, 95, 114, 101, 115, 101, 114, 118, 101, 95, 97,
      99, 99, 111, 117, 110, 116>>

ANKER_UST_RESERVE_ACCOUNT ==
    <<117, 115, 116, 95, 114, 101, 115, 101, 114, 118, 101, 95, 97, 99, 99,
      111, 117, 110, 116>>

ANCHOR_RESERVE_ACCOUNT ==
    <<114, 101, 115, 101, 114, 118, 101, 95, 97, 99, 99, 111, 117, 110, 116>>

-----------------------------------------------------------------------------
(* Pubkey::create_program_address: a digest of the seeds and the program   *)
(* id; the derivation fails when the digest is a point of the curve.       *)

RECURSIVE DigestRange(_, _, _)
DigestRange(bytes, lo, hi) ==
    IF lo > hi THEN 0
    ELSE IF lo = hi THEN (bytes[lo] + 1) * (lo * lo + lo + 1)
    ELSE LET mid == (lo + hi) \div 2
         IN  DigestRange(bytes, lo, mid) + DigestRange(bytes, mid + 1, hi)

\* The digest of one byte string: every byte and its position count.
Digest(bytes) == (7 + DigestRange(bytes, 1, Len(bytes))) % 65521

\* The byte strings used as seeds or program ids.
SeedUniverse ==
    {Key(n) : n \in 0..255}
        \cup {ANKER_MINT_AUTHORITY, ANKER_RESERVE_AUTHORITY,
              ANKER_STSOL_RESERVE_ACCOUNT, ANKER_UST_RESERVE_ACCOUNT,
              ANCHOR_RESERVE_ACCOUNT}
        \cup {<<b>> : b \in 0..255}

\* The digests of the seeds, computed once.
SeedDigest == [s \in SeedUniverse |-> Digest(s)] @@ <<>>

RECURSIVE Mix(_, _)
Mix(seeds, h) ==
    IF seeds = <<>> THEN h
    ELSE LET x == (h + SeedDigest[Head(seeds)]) % 8191
         IN  Mix(Tail(seeds), (x * x + 31 * x + 7) % 8191)

OnCurve(h) == h % 2 = 0

DigestKey(h) ==
    [i \in 1..PUBKEY_BYTES |->
        IF i = 1 THEN h % 256
        ELSE IF i = 2 THEN (h \div 256) % 256
        ELSE 238]

create_program_address(seeds, program_id) ==
    LET h == Mix(seeds \o <<program_id>>, 7)
    IN  IF OnCurve(h)
        THEN [ok |-> FALSE, key |-> Key(0)]
        ELSE [ok |-> TRUE, key |-> DigestKey(h)]

-----------------------------------------------------------------------------
(* Outcomes. *)

Ok == [kind |-> "Ok", diag |-> "none"]

Err(kind, diag) == [kind |-> kind, diag |-> diag]

\* A panic: the call does not return.
Abort == [kind |-> "Abort", diag |-> "none"]

NoResult == [kind |-> "None", diag |-> "none"]

AccountInfo(key, owner, data) == [key |-> key, owner |-> owner, data |-> data]

-----------------------------------------------------------------------------
(* Anker: the derived-account checks. *)

Anker_check_self_address(self, anker_program_id, account_info) ==
    LET address == create_program_address(
                       <<self.solido, <<self.self_bump_seed>>>>,
                       anker_program_id)
    IN  IF ~address.ok THEN Abort
        ELSE IF account_info.key # address.key
        THEN Err("InvalidDerivedAccount", "self_address")
        ELSE Ok

\* As check_derived_account_address, were the addresses compared on their
\* leading bytes only.
Anker_check_derived_account_address_Prefix(self, name, seed, bump_seed, anker_program_id, anker_instance, account_info) ==
    LET address == create_program_address(
                       <<anker_instance, seed, <<bump_seed>>>>,
                       anker_program_id)
    IN  IF ~address.ok THEN Abort
        ELSE IF SubSeq(account_info.key, 1, 2) # SubSeq(address.key, 1, 2)
        THEN Err("InvalidDerivedAccount", name)
        ELSE Ok

Anker_check_derived_account_address(self, name, seed, bump_seed, anker_program_id, anker_instance, account_info) ==
    LET address == create_program_address(
                       <<anker_instance, seed, <<bump_seed>>>>,
                       anker_program_id)
    IN  IF ~address.ok THEN Abort
        ELSE IF account_info.key # address.key
        THEN Err("InvalidDerivedAccount", name)
        ELSE Ok

Anker_check_stsol_reserve_address(self, anker_program_id, anker_instance, stsol_reserve_account_info) ==
    Anker_check_derived_account_address(
        self, "the stSOL reserve account", ANKER_STSOL_RESERVE_ACCOUNT,
        self.stsol_reserve_account_bump_seed,
        anker_program_id, anker_instance, stsol_reserve_account_info)

\* As the UST reserve check, were the seed of the UST reserve passed.
Anker_check_ust_reserve_address_OwnBump(self, anker_program_id, anker_instance, ust_reserve_account_info) ==
    Anker_check_derived_account_address(
        self, "the UST reserve account", ANKER_UST_RESERVE_ACCOUNT,
        self.ust_reserve_account_bump_seed,
        anker_program_id, anker_instance, ust_reserve_account_info)

Anker_check_ust_reserve_address(self, anker_program_id, anker_instance, ust_reserve_account_info) ==
    Anker_check_derived_account_address(
        self, "the UST reserve account", ANKER_UST_RESERVE_ACCOUNT,
        self.stsol_reserve_account_bump_seed,
        anker_program_id, anker_instance, ust_reserve_account_info)

Anker_check_reserve_authority(self, anker_program_id, anker_instance, reserve_authority_info) ==
    Anker_check_derived_account_address(
        self, "the reserve authority", ANKER_RESERVE_AUTHORITY,
        self.reserve_authority_bump_seed,
        anker_program_id, anker_instance, reserve_authority_info)

Anker_check_mint_authority(self, anker_program_id, anker_instance, mint_authority_info) ==
    Anker_check_derived_account_address(
        self, "the bSOL mint authority", ANKER_MINT_AUTHORITY,
        self.mint_authority_bump_seed,
        anker_program_id, anker_instance, mint_authority_info)

-----------------------------------------------------------------------------
(* Token accounts and mints. *)

\* spl_token::state::Account::unpack_from_slice on the payload <<mint, state>>:
\* it fails when the state byte is no AccountState (0, 1 or 2).
TokenAccount_unpack_from_slice(data) ==
    IF data[2] \in 0..2
    THEN [ok |-> TRUE, mint |-> data[1]]
    ELSE [ok |-> FALSE, mint |-> Key(0)]

\* As check_mint, were a successful validation remembered.
Anker_check_mint_Cached(self, provided_mint) ==
    IF result.kind = "Ok" THEN Ok
    ELSE IF provided_mint.owner # SplTokenId
    THEN Err("InvalidTokenMint", "mint_owner")
    ELSE IF self.b_sol_mint # provided_mint.key
    THEN Err("InvalidTokenMint", "mint_address")
    ELSE Ok

Anker_check_mint(self, provided_mint) ==
    IF provided_mint.owner # SplTokenId
    THEN Err("InvalidTokenMint", "mint_owner")
    ELSE IF self.b_sol_mint # provided_mint.key
    THEN Err("InvalidTokenMint", "mint_address")
    ELSE Ok

\* As check_is_spl_token_account, were the payload unpacked before the owner
\* is looked at.
Anker_check_is_spl_token_account_UnpackFirst(mint_name, mint_address, token_account_info) ==
    LET token_account ==
            TokenAccount_unpack_from_slice(token_account_info.data)
    IN  IF ~token_account.ok
        THEN Err("InvalidTokenAccount", "token_account_format")
        ELSE IF token_account_info.owner # SplTokenId
        THEN Err("InvalidTokenAccountOwner", "token_account_owner")
        ELSE IF token_account.mint # mint_address
        THEN Err("InvalidTokenMint", mint_name)
        ELSE Ok

Anker_check_is_spl_token_account(mint_name, mint_address, token_account_info) ==
    IF token_account_info.owner # SplTokenId
    THEN Err("InvalidTokenAccountOwner", "token_account_owner")
    ELSE LET token_account ==
                 TokenAccount_unpack_from_slice(token_account_info.data)
         IN  IF ~token_account.ok
             THEN Err("InvalidTokenAccount", "token_account_format")
             ELSE IF token_account.mint # mint_address
             THEN Err("InvalidTokenMint", mint_name)
             ELSE Ok

Anker_check_is_b_sol_account(self, token_account_info) ==
    Anker_check_is_spl_token_account("our bSOL", self.b_sol_mint,
                                     token_account_info)

Anker_check_is_st_sol_account(self, solido, token_account_info) ==
    Anker_check_is_spl_token_account("Solido's stSOL", solido.st_sol_mint,
                                     token_account_info)

-----------------------------------------------------------------------------
(* The swap pool. *)

\* The fields of spl_token_swap::state::SwapV1 read by the validator, in the
\* order of the packed layout that follows the one-byte version tag.
SwapV1Layout ==
    <<"is_initialized", "token_a", "token_b", "pool_mint", "token_a_mint",
      "token_b_mint", "pool_fee_account">>

SwapV1_pack(s) == [i \in 1..Len(SwapV1Layout) |-> s[SwapV1Layout[i]]]

\* Pack::unpack: the length must be that of the layout, the flag a bool, and
\* the state initialized.
SwapV1_unpack(input) ==
    IF Len(input) # Len(SwapV1Layout)
    THEN [ok |-> FALSE, err |-> "InvalidAccountData"]
    ELSE IF input[1] \notin {0, 1}
    THEN [ok |-> FALSE, err |-> "InvalidAccountData"]
    ELSE IF input[1] = 0
    THEN [ok |-> FALSE, err |-> "UninitializedAccount"]
    ELSE [ok |-> TRUE,
          token_a |-> input[2], token_b |-> input[3], pool_mint |-> input[4],
          token_a_mint |-> input[5], token_b_mint |-> input[6],
          pool_fee_account |-> input[7]]

\* As the checks that follow the unpacking, were the fee account not compared.
Anker_check_token_swap_fields_NoFee(self, token_swap, accounts) ==
    IF token_swap.token_a # accounts.st_sol_token.key
    THEN Err("WrongSplTokenSwapParameters", "token_a")
    ELSE IF token_swap.token_b # accounts.ust_token.key
    THEN Err("WrongSplTokenSwapParameters", "token_b")
    ELSE IF token_swap.pool_mint # accounts.pool_mint.key
    THEN Err("WrongSplTokenSwapParameters", "pool_mint")
    ELSE IF token_swap.token_a_mint # accounts.st_sol_mint.key
    THEN Err("WrongSplTokenSwapParameters", "token_a_mint")
    ELSE IF token_swap.token_b_mint # accounts.ust_mint.key
    THEN Err("WrongSplTokenSwapParameters", "token_b_mint")
    ELSE IF self.rewards_destination # accounts.rewards_destination.key
    THEN Err("InvalidRewardsDestination", "rewards_destination")
    ELSE Ok

\* The checks of check_token_swap that follow the unpacking of the pool.
Anker_check_token_swap_fields(self, token_swap, accounts) ==
    IF token_swap.token_a # accounts.st_sol_token.key
    THEN Err("WrongSplTokenSwapParameters", "token_a")
    ELSE IF token_swap.token_b # accounts.ust_token.key
    THEN Err("WrongSplTokenSwapParameters", "token_b")
    ELSE IF token_swap.pool_mint # accounts.pool_mint.key
    THEN Err("WrongSplTokenSwapParameters", "pool_mint")
    ELSE IF token_swap.token_a_mint # accounts.st_sol_mint.key
    THEN Err("WrongSplTokenSwapParameters", "token_a_mint")
    ELSE IF token_swap.token_b_mint # accounts.ust_mint.key
    THEN Err("WrongSplTokenSwapParameters", "token_b_mint")
    ELSE IF token_swap.pool_fee_account # accounts.pool_fee_account.key
    THEN Err("WrongSplTokenSwapParameters", "pool_fee_account")
    ELSE IF self.rewards_destination # accounts.rewards_destination.key
    THEN Err("InvalidRewardsDestination", "rewards_destination")
    ELSE Ok

Anker_check_token_swap(self, anker_program_id, accounts) ==
    IF self.pool # accounts.pool.key
    THEN Err("WrongSplTokenSwap", "pool")
    ELSE IF Len(accounts.pool.data) < 1
    THEN Abort  \* data[1..] of an empty buffer is out of range
    ELSE LET token_swap == SwapV1_unpack(Tail(accounts.pool.data))
         IN  IF ~token_swap.ok
             THEN Err(token_swap.err, "none")
             ELSE LET ust == Anker_check_ust_reserve_address(
                                 self, anker_program_id, accounts.anker.key,
                                 accounts.ust_token)
                  IN  IF ust # Ok THEN ust
                      ELSE Anker_check_token_swap_fields(self, token_swap,
                                                         accounts)

-----------------------------------------------------------------------------
(* Anchor. *)

Anchor_check_is_b_sol_account(self, token_account_info) ==
    IF token_account_info.owner # SplTokenId
    THEN Err("InvalidBSolAccountOwner", "token_account_owner")
    ELSE LET token_account ==
                 TokenAccount_unpack_from_slice(token_account_info.data)
         IN  IF ~token_account.ok
             THEN Err("InvalidBSolAccount", "token_account_format")
             ELSE IF token_account.mint # self.bsol_mint
             THEN Err("InvalidBSolMint", "our bSOL")
             ELSE Ok

Anchor_check_reserve_account(self, program_id, anchor_state, provided_reserve) ==
    LET reserve_account == create_program_address(
                               <<anchor_state, ANCHOR_RESERVE_ACCOUNT,
                                 <<self.reserve_account_bump_seed>>>>,
                               program_id)
    IN  IF ~reserve_account.ok
        THEN Err("InvalidSeeds", "none")  \* the `?` returns the error
        ELSE IF reserve_account.key # provided_reserve
        THEN Err("InvalidReserveAccount", "reserve_account")
        ELSE Ok

-----------------------------------------------------------------------------
(* The instance records. *)

Anker(b_self, b_mint_authority, b_reserve_authority, b_stsol, b_ust) ==
    [solido_program_id |-> Key(100),
     solido |-> Key(101),
     b_sol_mint |-> Key(1),
     pool |-> Key(30),
     rewards_destination |-> Key(31),
     self_bump_seed |-> b_self,
     mint_authority_bump_seed |-> b_mint_authority,
     reserve_authority_bump_seed |-> b_reserve_authority,
     stsol_reserve_account_bump_seed |-> b_stsol,
     ust_reserve_account_bump_seed |-> b_ust,
     token_swap_bump_seed |-> 255]

Anchor(b_reserve_account) ==
    [bsol_mint |-> Key(1),
     reserve_authority |-> Key(102),
     lido |-> Key(103),
     mint_authority_bump_seed |-> 255,
     reserve_authority_bump_seed |-> 254,
     reserve_account_bump_seed |-> b_reserve_account]

\* Anker::default() and Anchor::default()
DefaultAnker ==
    [solido_program_id |-> Key(0), solido |-> Key(0), b_sol_mint |-> Key(0),
     pool |-> Key(0), rewards_destination |-> Key(0),
     self_bump_seed |-> 0, mint_authority_bump_seed |-> 0,
     reserve_authority_bump_seed |-> 0, stsol_reserve_account_bump_seed |-> 0,
     ust_reserve_account_bump_seed |-> 0, token_swap_bump_seed |-> 0]

DefaultAnchor ==
    [bsol_mint |-> Key(0), reserve_authority |-> Key(0), lido |-> Key(0),
     mint_authority_bump_seed |-> 0, reserve_authority_bump_seed |-> 0,
     reserve_account_bump_seed |-> 0]

AnkerRecords ==
    {Anker(b1, b2, b3, b4, b5) : b1 \in {255}, b2 \in Bumps, b3 \in Bumps,
                                 b4 \in Bumps, b5 \in Bumps}

AnkerSelfRecords == {Anker(b, 255, 255, 255, 255) : b \in Bumps}

AnkerSwapRecords == {Anker(255, 255, 255, b4, b5) : b4 \in Bumps, b5 \in Bumps}

AnchorRecords == {Anchor(b) : b \in Bumps}

-----------------------------------------------------------------------------
(* The inputs of a call: the account snapshots a caller supplies. *)

NoAccount == AccountInfo(Key(0), Key(0), <<>>)

\* The fields of SellRewardsAccountsInfo read by check_token_swap.
BundleSlots ==
    {"pool", "ust_token", "st_sol_token", "pool_mint", "st_sol_mint",
     "ust_mint", "pool_fee_account", "rewards_destination"}

NoAccounts == [s \in BundleSlots \cup {"anker"} |-> NoAccount]

Call(op, program_id, instance, mint, acct, accounts) ==
    [op |-> op, program_id |-> program_id, instance |-> instance,
     mint |-> mint, acct |-> acct, accounts |-> accounts]

InstanceKeys == {Key(0), Key(1)}

\* Owner and payload of a candidate account.
Bodies == {<<SplTokenId, <<Key(1), 1>>>>, <<ForeignProgramId, <<Key(0), 0>>>>}

\* Candidate addresses for a check that expects `expected`.
Candidates(expected) ==
    Keys \cup {expected} \cup {Tamper(expected, i) : i \in TamperedBytes}

Derived(seeds, program_id) == create_program_address(seeds, program_id).key

RoleOps ==
    {"check_mint_authority", "check_reserve_authority",
     "check_stsol_reserve_address", "check_ust_reserve_address"}

\* The address a caller would supply for a role: derived with the role's own
\* label and its own bump-seed field.
RoleAddress(rec, op, program_id, instance) ==
    CASE op = "check_mint_authority" ->
           Derived(<<instance, ANKER_MINT_AUTHORITY,
                     <<rec.mint_authority_bump_seed>>>>, program_id)
      [] op = "check_reserve_authority" ->
           Derived(<<instance, ANKER_RESERVE_AUTHORITY,
                     <<rec.reserve_authority_bump_seed>>>>, program_id)
      [] op = "check_stsol_reserve_address" ->
           Derived(<<instance, ANKER_STSOL_RESERVE_ACCOUNT,
                     <<rec.stsol_reserve_account_bump_seed>>>>, program_id)
      [] op = "check_ust_reserve_address" ->
           Derived(<<instance, ANKER_UST_RESERVE_ACCOUNT,
                     <<rec.ust_reserve_account_bump_seed>>>>, program_id)

\* The address the program compares a UST reserve against.
UstReserveAddress(rec, program_id, instance) ==
    Derived(<<instance, ANKER_UST_RESERVE_ACCOUNT,
              <<rec.stsol_reserve_account_bump_seed>>>>, program_id)

RoleCandidates(rec, op, program_id, instance) ==
    Candidates(RoleAddress(rec, op, program_id, instance))
        \cup {UstReserveAddress(rec, program_id, instance)}

SelfCandidates(rec, program_id) ==
    Candidates(Derived(<<rec.solido, <<rec.self_bump_seed>>>>, program_id))

ReserveCandidates(rec, program_id, anchor_state) ==
    Candidates(Derived(<<anchor_state, ANCHOR_RESERVE_ACCOUNT,
                         <<rec.reserve_account_bump_seed>>>>, program_id))

MintCandidates(mint) == Candidates(mint)

TokenPayloads(mint) == {<<m, st>> : m \in MintCandidates(mint), st \in 0..3}

TokenOwners == {SplTokenId, ForeignProgramId}

-----------------------------------------------------------------------------
(* The bundle of check_token_swap. *)

PoolState(is_initialized, token_b) ==
    [is_initialized |-> is_initialized, token_a |-> Key(20),
     token_b |-> token_b, pool_mint |-> Key(22), token_a_mint |-> Key(23),
     token_b_mint |-> Key(24), pool_fee_account |-> Key(25)]

\* Pool account buffers: a version byte followed by the packed state; also
\* an empty buffer, a lone version byte and a truncated state.
PoolDatas(ust) ==
    {<<>>, <<1>>, <<1, 1, Key(20)>>,
     <<1>> \o SwapV1_pack(PoolState(1, ust)),
     <<1>> \o SwapV1_pack(PoolState(1, Key(21))),
     <<1>> \o SwapV1_pack(PoolState(0, ust)),
     <<1>> \o SwapV1_pack(PoolState(2, ust))}

\* The addresses recorded by the instance and by the pool.
GoodKey(rec, program_id, instance, slot) ==
    CASE slot = "anker" -> instance
      [] slot = "pool" -> rec.pool
      [] slot = "ust_token" -> UstReserveAddress(rec, program_id, instance)
      [] slot = "st_sol_token" -> Key(20)
      [] slot = "pool_mint" -> Key(22)
      [] slot = "st_sol_mint" -> Key(23)
      [] slot = "ust_mint" -> Key(24)
      [] slot = "pool_fee_account" -> Key(25)
      [] slot = "rewards_destination" -> rec.rewards_destination

TamperedSlots(rec, program_id, accounts) ==
    {s \in BundleSlots :
        accounts[s].key # GoodKey(rec, program_id, accounts.anker.key, s)}

Bundle(rec, program_id, instance, tampered, pool_data) ==
    [s \in BundleSlots \cup {"anker"} |->
        AccountInfo(
            IF s \in tampered
            THEN Tamper(GoodKey(rec, program_id, instance, s), PUBKEY_BYTES)
            ELSE GoodKey(rec, program_id, instance, s),
            ForeignProgramId,
            IF s = "pool" THEN pool_data ELSE <<>>)]

\* The bundle with the account of one slot replaced, or left as it is.
Toggle(rec, program_id, accounts, slot) ==
    IF slot \notin BundleSlots THEN accounts
    ELSE LET good == GoodKey(rec, program_id, accounts.anker.key, slot)
         IN  [accounts EXCEPT ![slot].key =
                 IF accounts[slot].key = good
                 THEN Tamper(good, PUBKEY_BYTES) ELSE good]

-----------------------------------------------------------------------------
(* The command-line options of the CLI and their merge with a config file *)
(* (cli_opt_struct!, instantiated for RunMaintainerOpts).                  *)

\* Option<T>.
None == [some |-> FALSE]

Some(v) == [some |-> TRUE, v |-> v]

\* Option::or.
Option_or(a, b) == IF a.some THEN a ELSE b

\* Strings are sequences of characters; a string of n characters '1'.
Ones(n) == [i \in 1..n |-> "1"]

DecimalDigits == <<"0", "1", "2", "3", "4", "5", "6", "7", "8", "9">>

B58Alphabet ==
    <<"1", "2", "3", "4", "5", "6", "7", "8", "9",
      "A", "B", "C", "D", "E", "F", "G", "H", "J", "K", "L", "M", "N", "P",
      "Q", "R", "S", "T", "U", "V", "W", "X", "Y", "Z",
      "a", "b", "c", "d", "e", "f", "g", "h", "i", "j", "k", "m", "n", "o",
      "p", "q", "r", "s", "t", "u", "v", "w", "x", "y", "z">>

IndexIn(alphabet, c) == CHOOSE i \in 1..Len(alphabet) : alphabet[i] = c

AllIn(s, alphabet) ==
    \A i \in 1..Len(s) : \E j \in 1..Len(alphabet) : alphabet[j] = s[i]

\* The number a string of digits of `alphabet` denotes, most significant
\* digit first.
RECURSIVE Radix(_, _, _)
Radix(s, alphabet, acc) ==
    IF s = <<>> THEN acc
    ELSE Radix(Tail(s), alphabet,
               acc * Len(alphabet) + (IndexIn(alphabet, Head(s)) - 1))

\* The big-endian bytes of a number, none for zero.
RECURSIVE BigEndian(_)
BigEndian(n) ==
    IF n = 0 THEN <<>> ELSE Append(BigEndian(n \div 256), n % 256)

RECURSIVE LeadingOnes(_)
LeadingOnes(s) ==
    IF s # <<>> /\ Head(s) = "1" THEN 1 + LeadingOnes(Tail(s)) ELSE 0

\* bs58 decoding: each leading '1' is a zero byte, the rest is a number.
bs58_decode(s) ==
    LET z == LeadingOnes(s)
    IN  [i \in 1..z |-> 0] \o
            BigEndian(Radix(SubSeq(s, z + 1, Len(s)), B58Alphabet, 0))

MAX_BASE58_LEN == 44

\* <Pubkey as FromStr>::from_str.
Pubkey_from_str(s) ==
    IF Len(s) > MAX_BASE58_LEN THEN [ok |-> FALSE]
    ELSE IF ~AllIn(s, B58Alphabet) THEN [ok |-> FALSE]
    ELSE IF Len(bs58_decode(s)) # PUBKEY_BYTES THEN [ok |-> FALSE]
    ELSE [ok |-> TRUE, v |-> bs58_decode(s)]

\* <u64 as FromStr>::from_str: decimal digits after an optional '+'.
u64_from_str(s) ==
    LET digits == IF s # <<>> /\ Head(s) = "+" THEN Tail(s) ELSE s
    IN  IF digits = <<>> \/ ~AllIn(digits, DecimalDigits) THEN [ok |-> FALSE]
        ELSE [ok |-> TRUE, v |-> Radix(digits, DecimalDigits, 0)]

\* <String as FromStr>::from_str never fails.
String_from_str(s) == [ok |-> TRUE, v |-> s]

from_str(type, s) ==
    CASE type = "Pubkey" -> Pubkey_from_str(s)
      [] type = "u64" -> u64_from_str(s)
      [] type = "String" -> String_from_str(s)

\* The fields of RunMaintainerOpts, in the order of their declaration.
OptFields ==
    <<"solido_program_id", "solido_address", "listen",
      "max_poll_interval_seconds">>

FieldNames == {OptFields[i] : i \in 1..Len(OptFields)}

FieldType ==
    [f \in FieldNames |->
        CASE f = "listen" -> "String"
          [] f = "max_poll_interval_seconds" -> "u64"
          [] OTHER -> "Pubkey"]

\* "0.0.0.0:8923".to_owned()
DefaultListen ==
    <<"0", ".", "0", ".", "0", ".", "0", ":", "8", "9", "2", "3">>

DefaultMaxPollIntervalSeconds == 120

\* The `=> <default>` of a field, None for a field that declares none.
FieldDefault ==
    [f \in FieldNames |->
        CASE f = "listen" -> Some(DefaultListen)
          [] f = "max_poll_interval_seconds" ->
               Some(DefaultMaxPollIntervalSeconds)
          [] OTHER -> None]

\* serde_json::Value: a string, a number, or an object of named values.
JsonString(s) == [kind |-> "String", s |-> s]

JsonNumber(n) == [kind |-> "Number", n |-> n]

JsonObject(entries) == [kind |-> "Object", entries |-> entries]

\* Value::get(name): the entry of an object, None for any other value.
Value_get(value, name) ==
    IF value.kind = "Object" /\ name \in DOMAIN value.entries
    THEN Some(value.entries[name]) ELSE None

\* get_option_from_config: the process exits on a string that does not
\* convert; an entry that is not a string gives None.
get_option_from_config(name, type, config_file) ==
    IF ~config_file.some THEN [exit |-> FALSE, value |-> None]
    ELSE LET value == Value_get(config_file.v.values, name)
         IN  IF ~value.some THEN [exit |-> FALSE, value |-> None]
             ELSE IF value.v.kind = "String"
             THEN LET parsed == from_str(type, value.v.s)
                  IN  IF ~parsed.ok
                      THEN [exit |-> TRUE, value |-> None,
                            eprintln |-> [kind |-> "convert",
                                          text |-> value.v.s]]
                      ELSE [exit |-> FALSE, value |-> Some(parsed.v)]
             ELSE [exit |-> FALSE, value |-> None]

\* The process before, in and after merge_with_config.
Process(state, failed, stderr) ==
    [state |-> state, failed |-> failed, stderr |-> stderr]

\* One round of the $( ... )* repetition of merge_with_config, for field f.
merge_field(f, self, config_file, p) ==
    IF p.state = "exited" THEN [self |-> self, p |-> p]
    ELSE LET from_cli == self[f]
             from_config == get_option_from_config(f, FieldType[f],
                                                   config_file)
             merged == Option_or(Option_or(from_cli, from_config.value),
                                 FieldDefault[f])
         IN  IF from_config.exit
             THEN [self |-> [self EXCEPT ![f] = None],
                   p |-> Process("exited", p.failed,
                                 Append(p.stderr, from_config.eprintln))]
             ELSE [self |-> [self EXCEPT ![f] = merged],
                   p |-> IF merged.some THEN p
                         ELSE Process(p.state, TRUE,
                                      Append(p.stderr,
                                             [kind |-> "missing",
                                              field |-> f]))]

RECURSIVE merge_fields(_, _, _, _)
merge_fields(i, self, config_file, p) ==
    IF i > Len(OptFields) THEN [self |-> self, p |-> p]
    ELSE LET r == merge_field(OptFields[i], self, config_file, p)
         IN  merge_fields(i + 1, r.self, config_file, r.p)

\* merge_with_config: every field in turn, then exit(1) if one is missing.
merge_with_config(self, config_file) ==
    LET r == merge_fields(1, self, config_file, Process("merging", FALSE, <<>>))
    IN  IF r.p.state = "exited" THEN r
        ELSE IF r.p.failed
        THEN [self |-> r.self, p |-> Process("exited", TRUE, r.p.stderr)]
        ELSE [self |-> r.self, p |-> Process("merged", FALSE, r.p.stderr)]

\* A generated getter: self.$field.as_ref().unwrap().
getter(self, f) ==
    IF self[f].some THEN [field |-> f, panic |-> FALSE, v |-> self[f].v]
    ELSE [field |-> f, panic |-> TRUE]

NoOpts == [f \in FieldNames |-> None]

NoGot == [field |-> "none", panic |-> FALSE]

IdleProcess == Process("idle", FALSE, <<>>)

-----------------------------------------------------------------------------
(* Initial states: a record and the snapshots supplied for one validator. *)

Account(key, body) == AccountInfo(key, body[1], body[2])

InitSelf ==
    {<<rec, DefaultAnchor,
       Call("check_self_address", p, Key(0), Key(0), Account(k, b), NoAccounts)>> :
        rec \in AnkerSelfRecords, p \in ProgramIds, b \in Bodies,
        k \in {Key(0)}}

InitRole ==
    {<<x[1], DefaultAnchor,
       Call(x[2], AnkerProgramId, x[3], Key(0), Account(Key(0), x[4]),
            NoAccounts)>> :
        x \in AnkerRecords \X RoleOps \X InstanceKeys \X Bodies}

InitMint ==
    {<<rec, DefaultAnchor,
       Call("check_mint", AnkerProgramId, Key(0), Key(0),
            AccountInfo(Key(0), o, <<>>), NoAccounts)>> :
        rec \in AnkerSelfRecords, o \in TokenOwners}

InitBSol ==
    {<<rec, DefaultAnchor,
       Call("check_is_b_sol_account", AnkerProgramId, Key(0), Key(0),
            AccountInfo(Key(0), o, <<Key(0), 0>>), NoAccounts)>> :
        rec \in AnkerSelfRecords, o \in TokenOwners}

InitStSol ==
    {<<rec, DefaultAnchor,
       Call("check_is_st_sol_account", AnkerProgramId, Key(0), m,
            AccountInfo(Key(0), o, <<Key(0), 0>>), NoAccounts)>> :
        rec \in AnkerSelfRecords, o \in TokenOwners, m \in Keys}

InitSwap ==
    UNION {
        {<<rec, DefaultAnchor,
           Call("check_token_swap", AnkerProgramId, i, Key(0), NoAccount,
                Bundle(rec, AnkerProgramId, i, {}, pd))>> :
            pd \in PoolDatas(UstReserveAddress(rec, AnkerProgramId, i))} :
        rec \in AnkerSwapRecords, i \in InstanceKeys}

InitAnchorBSol ==
    {<<DefaultAnker, rec,
       Call("anchor_check_is_b_sol_account", AnchorProgramId, Key(0), Key(0),
            AccountInfo(Key(0), o, <<Key(0), 0>>), NoAccounts)>> :
        rec \in AnchorRecords, o \in TokenOwners}

InitAnchorReserve ==
    {<<DefaultAnker, rec,
       Call("anchor_check_reserve_account", p, i, Key(0), NoAccount, NoAccounts)>> :
        rec \in AnchorRecords, p \in ProgramIds, i \in InstanceKeys}

NoBuffer == [data |-> <<>>, off |-> 0]

\* The record and the snapshots of a call, as a validator sees them.
Snapshots(a, b, c) ==
    [anker |-> a, anchor |-> b, acct |-> c.acct, accounts |-> c.accounts]

NoRecord == [record |-> [ok |-> FALSE], saved |-> FALSE]

Init ==
    /\ \E x \in InitSelf \cup InitRole \cup InitMint \cup InitBSol
                \cup InitStSol \cup InitSwap \cup InitAnchorBSol
                \cup InitAnchorReserve :
          /\ anker = x[1]
          /\ anchor = x[2]
          /\ call = x[3]
    /\ result = NoResult
    /\ account = NoBuffer
    /\ loaded = NoRecord
    /\ reinvoked = FALSE
    /\ returned = Snapshots(anker, anchor, call)
    /\ opts = NoOpts
    /\ args = NoOpts
    /\ config = None
    /\ process = IdleProcess
    /\ got = NoGot

-----------------------------------------------------------------------------
(* One action per validator: the caller supplies the account (the same     *)
(* snapshot as before, or another one) and the validator runs on it.       *)

\* Whether the call repeats the previous one on unchanged inputs.
Invoked == reinvoked' = (result # NoResult /\ call' = call)

\* The account a validator leaves behind: it holds the &AccountInfo it was
\* given and reads the buffer through data.borrow(), a shared borrow that is
\* dropped when the call returns.
data_borrow_Advanced(account_info) ==
    [account_info EXCEPT !.data = IF @ = <<>> THEN @ ELSE Tail(@)]

data_borrow(account_info) == account_info

\* The record and the snapshots as they are when the validator returns
\* (the validators take &self).
Returns ==
    returned' = [anker |-> anker, anchor |-> anchor,
                 acct |-> data_borrow(call'.acct),
                 accounts |-> [s \in DOMAIN call'.accounts |->
                                  data_borrow(call'.accounts[s])]]

CheckSelfAddress ==
    /\ call.op = "check_self_address"
    /\ \E k \in SelfCandidates(anker, call.program_id) :
          /\ call' = [call EXCEPT !.acct.key = k]
          /\ result' = Anker_check_self_address(anker, call.program_id,
                                                call'.acct)
    /\ Invoked
    /\ Returns
    /\ UNCHANGED <<configVars, anker, anchor, account, loaded>>

CheckMintAuthority ==
    /\ call.op = "check_mint_authority"
    /\ \E k \in RoleCandidates(anker, call.op, call.program_id, call.instance) :
          /\ call' = [call EXCEPT !.acct.key = k]
          /\ result' = Anker_check_mint_authority(anker, call.program_id,
                                                  call.instance, call'.acct)
    /\ Invoked
    /\ Returns
    /\ UNCHANGED <<configVars, anker, anchor, account, loaded>>

CheckReserveAuthority ==
    /\ call.op = "check_reserve_authority"
    /\ \E k \in RoleCandidates(anker, call.op, call.program_id, call.instance) :
          /\ call' = [call EXCEPT !.acct.key = k]
          /\ result' = Anker_check_reserve_authority(anker, call.program_id,
                                                     call.instance, call'.acct)
    /\ Invoked
    /\ Returns
    /\ UNCHANGED <<configVars, anker, anchor, account, loaded>>

CheckStsolReserveAddress ==
    /\ call.op = "check_stsol_reserve_address"
    /\ \E k \in RoleCandidates(anker, call.op, call.program_id, call.instance) :
          /\ call' = [call EXCEPT !.acct.key = k]
          /\ result' = Anker_check_stsol_reserve_address(
                           anker, call.program_id, call.instance, call'.acct)
    /\ Invoked
    /\ Returns
    /\ UNCHANGED <<configVars, anker, anchor, account, loaded>>

CheckUstReserveAddress ==
    /\ call.op = "check_ust_reserve_address"
    /\ \E k \in RoleCandidates(anker, call.op, call.program_id, call.instance) :
          /\ call' = [call EXCEPT !.acct.key = k]
          /\ result' = Anker_check_ust_reserve_address(
                           anker, call.program_id, call.instance, call'.acct)
    /\ Invoked
    /\ Returns
    /\ UNCHANGED <<configVars, anker, anchor, account, loaded>>

CheckMint ==
    /\ call.op = "check_mint"
    /\ \E k \in MintCandidates(anker.b_sol_mint) :
          /\ call' = [call EXCEPT !.acct.key = k]
          /\ result' = Anker_check_mint(anker, call'.acct)
    /\ Invoked
    /\ Returns
    /\ UNCHANGED <<configVars, anker, anchor, account, loaded>>

CheckIsBSolAccount ==
    /\ call.op = "check_is_b_sol_account"
    /\ \E d \in TokenPayloads(anker.b_sol_mint) :
          /\ call' = [call EXCEPT !.acct.data = d]
          /\ result' = Anker_check_is_b_sol_account(anker, call'.acct)
    /\ Invoked
    /\ Returns
    /\ UNCHANGED <<configVars, anker, anchor, account, loaded>>

CheckIsStSolAccount ==
    /\ call.op = "check_is_st_sol_account"
    /\ \E d \in TokenPayloads(call.mint) :
          /\ call' = [call EXCEPT !.acct.data = d]
          /\ result' = Anker_check_is_st_sol_account(
                           anker, [st_sol_mint |-> call.mint], call'.acct)
    /\ Invoked
    /\ Returns
    /\ UNCHANGED <<configVars, anker, anchor, account, loaded>>

CheckTokenSwap ==
    /\ call.op = "check_token_swap"
    /\ \E s \in BundleSlots \cup {"anker"} :
          LET accounts == Toggle(anker, call.program_id, call.accounts, s)
          IN  /\ Cardinality(TamperedSlots(anker, call.program_id, accounts))
                    <= MaxTampered
              /\ call' = [call EXCEPT !.accounts = accounts]
              /\ result' = Anker_check_token_swap(anker, call.program_id,
                                                  accounts)
    /\ Invoked
    /\ Returns
    /\ UNCHANGED <<configVars, anker, anchor, account, loaded>>

AnchorCheckIsBSolAccount ==
    /\ call.op = "anchor_check_is_b_sol_account"
    /\ \E d \in TokenPayloads(anchor.bsol_mint) :
          /\ call' = [call EXCEPT !.acct.data = d]
          /\ result' = Anchor_check_is_b_sol_account(anchor, call'.acct)
    /\ Invoked
    /\ Returns
    /\ UNCHANGED <<configVars, anker, anchor, account, loaded>>

AnchorCheckReserveAccount ==
    /\ call.op = "anchor_check_reserve_account"
    /\ \E k \in ReserveCandidates(anchor, call.program_id, call.instance) :
          /\ call' = [call EXCEPT !.acct.key = k]
          /\ result' = Anchor_check_reserve_account(
                           anchor, call.program_id, call.instance, k)
    /\ Invoked
    /\ Returns
    /\ UNCHANGED <<configVars, anker, anchor, account, loaded>>

Next ==
    \/ CheckSelfAddress
    \/ CheckMintAuthority
    \/ CheckReserveAuthority
    \/ CheckStsolReserveAddress
    \/ CheckUstReserveAddress
    \/ CheckMint
    \/ CheckIsBSolAccount
    \/ CheckIsStSolAccount
    \/ CheckTokenSwap
    \/ AnchorCheckIsBSolAccount
    \/ AnchorCheckReserveAccount

Spec == Init /\ [][Next]_vars

-----------------------------------------------------------------------------
(* Persistence: the Borsh encoding of the records and save.                *)

\* Size of the serialized Anker struct, in bytes.
ANKER_LEN == 166

\* As the encoding of Anker, were the last field left out.
Anker_serialize_Short(self) ==
    self.solido_program_id \o self.solido \o self.b_sol_mint \o self.pool
        \o self.rewards_destination
        \o <<self.self_bump_seed, self.mint_authority_bump_seed,
             self.reserve_authority_bump_seed,
             self.stsol_reserve_account_bump_seed,
             self.ust_reserve_account_bump_seed>>

\* As the encoding of Anker, were two bump seeds written in the other order.
Anker_serialize_Swapped(self) ==
    self.solido_program_id \o self.solido \o self.b_sol_mint \o self.pool
        \o self.rewards_destination
        \o <<self.self_bump_seed, self.reserve_authority_bump_seed,
             self.mint_authority_bump_seed,
             self.stsol_reserve_account_bump_seed,
             self.ust_reserve_account_bump_seed, self.token_swap_bump_seed>>

\* Borsh writes the fields in declaration order: a Pubkey as its 32 bytes,
\* a u8 as one byte.
Anker_serialize(self) ==
    self.solido_program_id \o self.solido \o self.b_sol_mint \o self.pool
        \o self.rewards_destination
        \o <<self.self_bump_seed, self.mint_authority_bump_seed,
             self.reserve_authority_bump_seed,
             self.stsol_reserve_account_bump_seed,
             self.ust_reserve_account_bump_seed, self.token_swap_bump_seed>>

Anchor_serialize(self) ==
    self.bsol_mint \o self.reserve_authority \o self.lido
        \o <<self.mint_authority_bump_seed, self.reserve_authority_bump_seed,
             self.reserve_account_bump_seed>>

\* Reading a Pubkey at offset `at` (0-based) of a buffer.
ReadPubkey(buf, at) == [i \in 1..PUBKEY_BYTES |-> buf[at + i]]

\* Borsh reads the fields in declaration order and fails when the buffer
\* ends before the last field.
Anker_deserialize(buf) ==
    IF Len(buf) < 5 * PUBKEY_BYTES + 6 THEN [ok |-> FALSE]
    ELSE [ok |-> TRUE,
          value |->
            [solido_program_id |-> ReadPubkey(buf, 0),
             solido |-> ReadPubkey(buf, PUBKEY_BYTES),
             b_sol_mint |-> ReadPubkey(buf, 2 * PUBKEY_BYTES),
             pool |-> ReadPubkey(buf, 3 * PUBKEY_BYTES),
             rewards_destination |-> ReadPubkey(buf, 4 * PUBKEY_BYTES),
             self_bump_seed |-> buf[5 * PUBKEY_BYTES + 1],
             mint_authority_bump_seed |-> buf[5 * PUBKEY_BYTES + 2],
             reserve_authority_bump_seed |-> buf[5 * PUBKEY_BYTES + 3],
             stsol_reserve_account_bump_seed |-> buf[5 * PUBKEY_BYTES + 4],
             ust_reserve_account_bump_seed |-> buf[5 * PUBKEY_BYTES + 5],
             token_swap_bump_seed |-> buf[5 * PUBKEY_BYTES + 6]]]

Anchor_deserialize(buf) ==
    IF Len(buf) < 3 * PUBKEY_BYTES + 3 THEN [ok |-> FALSE]
    ELSE [ok |-> TRUE,
          value |->
            [bsol_mint |-> ReadPubkey(buf, 0),
             reserve_authority |-> ReadPubkey(buf, PUBKEY_BYTES),
             lido |-> ReadPubkey(buf, 2 * PUBKEY_BYTES),
             mint_authority_bump_seed |-> buf[3 * PUBKEY_BYTES + 1],
             reserve_authority_bump_seed |-> buf[3 * PUBKEY_BYTES + 2],
             reserve_account_bump_seed |-> buf[3 * PUBKEY_BYTES + 3]]]

Min(a, b) == IF a < b THEN a ELSE b

\* io::Write for &mut [u8], the writer save hands to Borsh: bytes are copied
\* to the front of the slice while room is left and the slice is advanced
\* past them; write_all fails when not all of them fit.  The slice is the
\* one held by the AccountInfo: account.off is how far it has been advanced.
SliceWrite(acc, bytes) ==
    LET n == Min(Len(acc.data) - acc.off, Len(bytes))
    IN  [ok |-> n = Len(bytes),
         account |->
           [data |-> [i \in 1..Len(acc.data) |->
                        IF acc.off < i /\ i <= acc.off + n
                        THEN bytes[i - acc.off] ELSE acc.data[i]],
            off |-> acc.off + n]]

Anker_save(self, acc) ==
    LET w == SliceWrite(acc, Anker_serialize(self))
    IN  [result |-> IF w.ok THEN Ok ELSE Err("BorshIoError", "none"),
         account |-> w.account]

Anchor_save(self, acc) ==
    LET w == SliceWrite(acc, Anchor_serialize(self))
    IN  [result |-> IF w.ok THEN Ok ELSE Err("BorshIoError", "none"),
         account |-> w.account]

-----------------------------------------------------------------------------
(* The persistence specification: a record and the buffer of its account.  *)

\* An address all of whose bytes differ.
FullKey(n) == [i \in 1..PUBKEY_BYTES |-> (n + i) % 256]

StoreKeys == {Key(0), FullKey(NumKeys)}

\* Bump-seed bytes of a record: all equal, or all different.
StoreBumpSeeds ==
    {[i \in 1..6 |-> 0], [i \in 1..6 |-> 255], [i \in 1..6 |-> i],
     [i \in 1..6 |-> 255 - NumBumps * i]}

StoreAnkers ==
    {DefaultAnker} \cup
    {[solido_program_id |-> x[1], solido |-> x[2], b_sol_mint |-> x[3],
      pool |-> x[4], rewards_destination |-> x[5],
      self_bump_seed |-> y[1], mint_authority_bump_seed |-> y[2],
      reserve_authority_bump_seed |-> y[3],
      stsol_reserve_account_bump_seed |-> y[4],
      ust_reserve_account_bump_seed |-> y[5], token_swap_bump_seed |-> y[6]] :
        x \in [1..5 -> StoreKeys], y \in StoreBumpSeeds}
    \cup
    {[DefaultAnker EXCEPT ![f] = FullKey(NumKeys)] :
        f \in {"solido_program_id", "solido", "b_sol_mint", "pool",
               "rewards_destination"}}
    \cup
    {[DefaultAnker EXCEPT ![f] = b] :
        f \in {"self_bump_seed", "mint_authority_bump_seed",
               "reserve_authority_bump_seed",
               "stsol_reserve_account_bump_seed",
               "ust_reserve_account_bump_seed", "token_swap_bump_seed"},
        b \in Bumps}

StoreAnchors ==
    {[bsol_mint |-> x[1], reserve_authority |-> x[2], lido |-> x[3],
      mint_authority_bump_seed |-> y[1], reserve_authority_bump_seed |-> y[2],
      reserve_account_bump_seed |-> y[3]] :
        x \in [1..3 -> StoreKeys], y \in StoreBumpSeeds}

\* Buffers of about the record's length, and an empty one.
BufferLens(len) == {0} \cup {n \in (len - MaxPad)..(len + MaxPad) : n >= 0}

FreshBuffer(n) == [data |-> [i \in 1..n |-> 170], off |-> 0]

StoreCall(op) == Call(op, Key(0), Key(0), Key(0), NoAccount, NoAccounts)

StoreInit ==
    /\ \/ /\ anker \in StoreAnkers
          /\ anchor = DefaultAnchor
          /\ call = StoreCall("anker")
          /\ \E n \in BufferLens(Len(Anker_serialize(DefaultAnker))) :
                account = FreshBuffer(n)
       \/ /\ anker = DefaultAnker
          /\ anchor \in StoreAnchors
          /\ call = StoreCall("anchor")
          /\ \E n \in BufferLens(Len(Anchor_serialize(DefaultAnchor))) :
                account = FreshBuffer(n)
    /\ result = NoResult
    /\ loaded = NoRecord
    /\ reinvoked = FALSE
    /\ returned = Snapshots(anker, anchor, call)
    /\ opts = NoOpts
    /\ args = NoOpts
    /\ config = None
    /\ process = IdleProcess
    /\ got = NoGot

AnkerSave ==
    /\ call.op \in {"anker", "anker_save", "anker_load"}
    /\ LET s == Anker_save(anker, account)
       IN  /\ result' = s.result
           /\ account' = s.account
    /\ call' = [call EXCEPT !.op = "anker_save"]
    /\ Invoked
    /\ UNCHANGED <<configVars, anker, anchor, loaded, returned>>

AnchorSave ==
    /\ call.op \in {"anchor", "anchor_save", "anchor_load"}
    /\ LET s == Anchor_save(anchor, account)
       IN  /\ result' = s.result
           /\ account' = s.account
    /\ call' = [call EXCEPT !.op = "anchor_save"]
    /\ Invoked
    /\ UNCHANGED <<configVars, anker, anchor, loaded, returned>>

\* A later call reads the record back from the account's buffer, through a
\* fresh AccountInfo; loaded.saved tells whether a successful save came
\* right before.
AnkerLoad ==
    /\ call.op \in {"anker", "anker_save", "anker_load"}
    /\ loaded' = [record |-> Anker_deserialize(account.data),
                  saved |-> (call.op = "anker_save" /\ result = Ok)]
    /\ result' = IF loaded'.record.ok THEN Ok ELSE Err("BorshIoError", "none")
    /\ account' = [account EXCEPT !.off = 0]
    /\ call' = [call EXCEPT !.op = "anker_load"]
    /\ Invoked
    /\ UNCHANGED <<configVars, anker, anchor, returned>>

AnchorLoad ==
    /\ call.op \in {"anchor", "anchor_save", "anchor_load"}
    /\ loaded' = [record |-> Anchor_deserialize(account.data),
                  saved |-> (call.op = "anchor_save" /\ result = Ok)]
    /\ result' = IF loaded'.record.ok THEN Ok ELSE Err("BorshIoError", "none")
    /\ account' = [account EXCEPT !.off = 0]
    /\ call' = [call EXCEPT !.op = "anchor_load"]
    /\ Invoked
    /\ UNCHANGED <<configVars, anker, anchor, returned>>

StoreNext == AnkerSave \/ AnchorSave \/ AnkerLoad \/ AnchorLoad

SpecStore == StoreInit /\ [][StoreNext]_vars

-----------------------------------------------------------------------------
(* The options as clap parsed them, a config file, then merge_with_config *)
(* and the getters.                                                        *)

Absent == [kind |-> "Absent"]

\* The value a field is given on the command line.
CliValue ==
    [f \in FieldNames |->
        CASE f = "listen" -> <<"l", ":", "9">>
          [] f = "max_poll_interval_seconds" -> 30
          [] f = "solido_program_id" -> Key(9)
          [] f = "solido_address" -> Key(8)]

\* What a config file may hold under the name of a field: a string that
\* converts, one that does not, a number; or nothing.
ConfigEntries ==
    [f \in FieldNames |->
        CASE f = "listen" ->
               {Absent, JsonString(<<"h", ":", "1">>), JsonNumber(7)}
          [] f = "max_poll_interval_seconds" ->
               {Absent, JsonString(<<"6", "0">>), JsonString(<<"6", "x">>),
                JsonNumber(45)}
          [] f = "solido_program_id" ->
               {Absent, JsonString(Ones(PUBKEY_BYTES - 1) \o <<"2">>),
                JsonString(Ones(PUBKEY_BYTES - 1)), JsonNumber(7)}
          [] f = "solido_address" ->
               {Absent, JsonString(Ones(PUBKEY_BYTES - 2) \o <<"z", "z">>),
                JsonString(<<"0", "O">>), JsonNumber(7)}]

ConfigObjects ==
    {JsonObject([f \in {g \in FieldNames : c[g] # Absent} |-> c[f]]) :
        c \in {d \in [FieldNames -> UNION {ConfigEntries[f] : f \in FieldNames}] :
                  \A f \in FieldNames : d[f] \in ConfigEntries[f]}}

\* Option<&ConfigFile>: no file, a file that is not an object, an object.
ConfigFiles ==
    {None, Some([values |-> JsonString(<<"x">>)])}
        \cup {Some([values |-> o]) : o \in ConfigObjects}

CliOpts ==
    {[f \in FieldNames |-> IF f \in given THEN Some(CliValue[f]) ELSE None] :
        given \in SUBSET FieldNames}

validatorVars ==
    <<anker, anchor, call, result, account, loaded, reinvoked, returned>>

ConfigInit ==
    /\ opts \in CliOpts
    /\ args = opts
    /\ config \in ConfigFiles
    /\ process = Process("parsed", FALSE, <<>>)
    /\ got = NoGot
    /\ anker = DefaultAnker
    /\ anchor = DefaultAnchor
    /\ call = StoreCall("none")
    /\ result = NoResult
    /\ account = NoBuffer
    /\ loaded = NoRecord
    /\ reinvoked = FALSE
    /\ returned = Snapshots(anker, anchor, call)

MergeWithConfig ==
    /\ process.state = "parsed"
    /\ LET r == merge_with_config(opts, config)
       IN  /\ opts' = r.self
           /\ process' = r.p
    /\ got' = NoGot
    /\ UNCHANGED <<args, config, validatorVars>>

\* A getter runs in a live process; the panic of its unwrap ends it.
Returned(p, g) ==
    IF g.panic THEN Process("panicked", p.failed, p.stderr) ELSE p

GetSolidoProgramId ==
    /\ process.state \in {"parsed", "merged"}
    /\ got' = getter(opts, "solido_program_id")
    /\ process' = Returned(process, got')
    /\ UNCHANGED <<opts, args, config, validatorVars>>

GetSolidoAddress ==
    /\ process.state \in {"parsed", "merged"}
    /\ got' = getter(opts, "solido_address")
    /\ process' = Returned(process, got')
    /\ UNCHANGED <<opts, args, config, validatorVars>>

GetListen ==
    /\ process.state \in {"parsed", "merged"}
    /\ got' = getter(opts, "listen")
    /\ process' = Returned(process, got')
    /\ UNCHANGED <<opts, args, config, validatorVars>>

GetMaxPollIntervalSeconds ==
    /\ process.state \in {"parsed", "merged"}
    /\ got' = getter(opts, "max_poll_interval_seconds")
    /\ process' = Returned(process, got')
    /\ UNCHANGED <<opts, args, config, validatorVars>>

ConfigNext ==
    \/ MergeWithConfig
    \/ GetSolidoProgramId
    \/ GetSolidoAddress
    \/ GetListen
    \/ GetMaxPollIntervalSeconds

SpecConfig == ConfigInit /\ [][ConfigNext]_vars

-----------------------------------------------------------------------------
(* Properties. *)

Called == result # NoResult

TokenOps ==
    {"check_is_b_sol_account", "check_is_st_sol_account",
     "anchor_check_is_b_sol_account"}

ExpectedMint ==
    CASE call.op = "check_is_b_sol_account" -> anker.b_sol_mint
      [] call.op = "check_is_st_sol_account" -> call.mint
      [] call.op = "anchor_check_is_b_sol_account" -> anchor.bsol_mint

\* The owner, format and mint errors of a token-account check.
TokenErrors ==
    IF call.op = "anchor_check_is_b_sol_account"
    THEN <<"InvalidBSolAccountOwner", "InvalidBSolAccount", "InvalidBSolMint">>
    ELSE <<"InvalidTokenAccountOwner", "InvalidTokenAccount", "InvalidTokenMint">>

-----------------------------------------------------------------------------

\* The number (1 to 10) of the first check of section 4.5 that the supplied
\* bundle fails, 0 when it passes all of them.
FirstFailing(rec, program_id, accounts) ==
    LET data == accounts.pool.data
        pool == IF Len(data) >= 1 THEN SwapV1_unpack(Tail(data))
                ELSE [ok |-> FALSE]
        ust == create_program_address(
                   <<accounts.anker.key, ANKER_UST_RESERVE_ACCOUNT,
                     <<rec.stsol_reserve_account_bump_seed>>>>, program_id)
    IN  IF accounts.pool.key # rec.pool THEN 1
        ELSE IF ~pool.ok THEN 2
        ELSE IF ~ust.ok \/ accounts.ust_token.key # ust.key THEN 3
        ELSE IF pool.token_a # accounts.st_sol_token.key THEN 4
        ELSE IF pool.token_b # accounts.ust_token.key THEN 5
        ELSE IF pool.pool_mint # accounts.pool_mint.key THEN 6
        ELSE IF pool.token_a_mint # accounts.st_sol_mint.key THEN 7
        ELSE IF pool.token_b_mint # accounts.ust_mint.key THEN 8
        ELSE IF pool.pool_fee_account # accounts.pool_fee_account.key THEN 9
        ELSE IF rec.rewards_destination # accounts.rewards_destination.key
        THEN 10
        ELSE 0

\* The error kinds a check of section 4.5 may return.
SwapCheckKinds ==
    <<{"WrongSplTokenSwap"},
      {"InvalidAccountData", "UninitializedAccount"},
      {"InvalidDerivedAccount"},
      {"WrongSplTokenSwapParameters"}, {"WrongSplTokenSwapParameters"},
      {"WrongSplTokenSwapParameters"}, {"WrongSplTokenSwapParameters"},
      {"WrongSplTokenSwapParameters"}, {"WrongSplTokenSwapParameters"},
      {"InvalidRewardsDestination"}>>

\* The diagnostic of each check of section 4.5.
SwapCheckDiags ==
    <<"pool", "pool_unpack", "the UST reserve account", "token_a", "token_b",
      "pool_mint", "token_a_mint", "token_b_mint", "pool_fee_account",
      "rewards_destination">>

\* C2: check_token_swap returns at the first failing check of section 4.5:
\* a bundle that passes checks 1..k and fails check k+1 yields the error
\* kind and the diagnostic of check k+1, whatever the later checks would do
\* (a derivation that fails in check 3 is fatal).
C2_FirstFailureWins ==
    (call.op = "check_token_swap" /\ Called) =>
        LET k == FirstFailing(anker, call.program_id, call.accounts)
            ust == create_program_address(
                       <<call.accounts.anker.key, ANKER_UST_RESERVE_ACCOUNT,
                         <<anker.stsol_reserve_account_bump_seed>>>>,
                       call.program_id)
        IN  IF k = 0 THEN result = Ok
            ELSE IF k = 3 /\ ~ust.ok THEN result = Abort
            ELSE /\ result.kind \in SwapCheckKinds[k]
                 /\ result.diag = SwapCheckDiags[k]

-----------------------------------------------------------------------------

\* C3: check_mint returns the invalid-account-owner error when the mint's
\* owner is not the token program, the invalid-mint error when the owner is
\* right and the address is not the record's mint, and succeeds otherwise;
\* the two failures have different error kinds.
C3_MintErrorKinds ==
    (call.op = "check_mint" /\ Called) =>
        IF call.acct.owner # SplTokenId
        THEN result.kind \notin {"Ok", "InvalidTokenMint"}
        ELSE IF call.acct.key # anker.b_sol_mint
        THEN result.kind = "InvalidTokenMint"
        ELSE result.kind = "Ok"

-----------------------------------------------------------------------------

RoleLabel(op) ==
    CASE op = "check_mint_authority" -> ANKER_MINT_AUTHORITY
      [] op = "check_reserve_authority" -> ANKER_RESERVE_AUTHORITY
      [] op = "check_stsol_reserve_address" -> ANKER_STSOL_RESERVE_ACCOUNT
      [] op = "check_ust_reserve_address" -> ANKER_UST_RESERVE_ACCOUNT

\* The bump-seed field of the record that belongs to the role.
OwnBump(rec, op) ==
    CASE op = "check_mint_authority" -> rec.mint_authority_bump_seed
      [] op = "check_reserve_authority" -> rec.reserve_authority_bump_seed
      [] op = "check_stsol_reserve_address" ->
           rec.stsol_reserve_account_bump_seed
      [] op = "check_ust_reserve_address" -> rec.ust_reserve_account_bump_seed

\* C4: each role-check compares the candidate with the address derived from
\* the instance address, the role's own label and the role's own bump-seed
\* field of the record.
C4_RoleOwnBump ==
    (call.op \in RoleOps /\ Called) =>
        LET own == create_program_address(
                       <<call.instance, RoleLabel(call.op),
                         <<OwnBump(anker, call.op)>>>>, call.program_id)
        IN  own.ok => (result.kind = "Ok" <=> call.acct.key = own.key)

-----------------------------------------------------------------------------

DerivedOps ==
    RoleOps \cup {"check_self_address", "anchor_check_reserve_account"}

\* The bump seed a role-check hands to check_derived_account_address.
PassedBump(rec, op) ==
    IF op = "check_ust_reserve_address"
    THEN rec.stsol_reserve_account_bump_seed
    ELSE OwnBump(rec, op)

\* The derivation a derived-account check performs.
Derivation ==
    CASE call.op = "check_self_address" ->
           create_program_address(
               <<anker.solido, <<anker.self_bump_seed>>>>, call.program_id)
      [] call.op = "anchor_check_reserve_account" ->
           create_program_address(
               <<call.instance, ANCHOR_RESERVE_ACCOUNT,
                 <<anchor.reserve_account_bump_seed>>>>, call.program_id)
      [] OTHER ->
           create_program_address(
               <<call.instance, RoleLabel(call.op),
                 <<PassedBump(anker, call.op)>>>>, call.program_id)

InvalidDerivedError ==
    IF call.op = "anchor_check_reserve_account"
    THEN "InvalidReserveAccount" ELSE "InvalidDerivedAccount"

\* C5: when the derivation succeeds, a derived-account check succeeds if and
\* only if the candidate's address is the computed address; any other
\* address fails with the invalid-derived-account error of the check,
\* whatever the candidate's owner and data are.
C5_DerivedAddressExact ==
    (call.op \in DerivedOps /\ Called /\ Derivation.ok) =>
        IF call.acct.key = Derivation.key
        THEN result = Ok
        ELSE result.kind = InvalidDerivedError

\* A candidate that differs from the computed address in its last byte only
\* has been rejected.
C5_Witness ==
    /\ call.op \in DerivedOps /\ Called /\ Derivation.ok
    /\ call.acct.key = Tamper(Derivation.key, PUBKEY_BYTES)
    /\ result.kind = InvalidDerivedError

-----------------------------------------------------------------------------

\* Checks that pass for exactly one candidate address or bundle.
ExactOps == DerivedOps \cup {"check_mint", "check_token_swap"}

-----------------------------------------------------------------------------

\* C7: the serialized Anker record has exactly ANKER_LEN bytes, for the
\* default record and for every other field values, and a successful save
\* writes that many bytes.
C7_AnkerLen ==
    /\ Len(Anker_serialize(anker)) = ANKER_LEN
    /\ (call.op = "anker_save" /\ result = Ok) => account.off = ANKER_LEN

\* A record other than the default one has been saved.
C7_Witness ==
    /\ call.op = "anker_save" /\ result = Ok
    /\ anker # DefaultAnker
    /\ \A f \in {"solido", "pool", "rewards_destination"} :
          anker[f] # DefaultAnker[f]
    /\ anker.token_swap_bump_seed # anker.self_bump_seed

-----------------------------------------------------------------------------

SaveOps == {"anker_save", "anchor_save"}

RecordBytes ==
    IF call.op \in {"anker", "anker_save", "anker_load"}
    THEN Anker_serialize(anker) ELSE Anchor_serialize(anchor)

\* C8: save fails whenever the buffer's length is not the record's
\* serialized length, for shorter and for longer buffers alike.
C8_SaveNeedsExactLength ==
    (call.op \in SaveOps /\ Called /\ Len(account.data) # Len(RecordBytes))
        => result.kind # "Ok"

-----------------------------------------------------------------------------

\* The records that differ from rec in one field: one byte of an address,
\* or a bump seed.
OneFieldChanged(rec) ==
    {[rec EXCEPT ![f] =
         IF f \in {"solido_program_id", "solido", "b_sol_mint", "pool",
                   "rewards_destination", "bsol_mint", "reserve_authority",
                   "lido"}
         THEN Tamper(rec[f], i) ELSE (rec[f] + i) % 256] :
        f \in DOMAIN rec, i \in TamperedBytes}

\* C9: a record saved into a buffer of its exact length and loaded from that
\* buffer is the record that was saved, field by field, for both variants;
\* records that differ in a field are saved as different buffers.
C9_RoundTrip ==
    /\ (call.op = "anker_save" /\ result = Ok
            /\ Len(account.data) = Len(Anker_serialize(anker)))
          => /\ Anker_deserialize(account.data) = [ok |-> TRUE, value |-> anker]
             /\ \A r \in OneFieldChanged(anker) :
                   Anker_save(r, FreshBuffer(Len(account.data))).account.data
                       # account.data
    /\ (call.op = "anchor_save" /\ result = Ok
            /\ Len(account.data) = Len(Anchor_serialize(anchor)))
          => /\ Anchor_deserialize(account.data)
                    = [ok |-> TRUE, value |-> anchor]
             /\ \A r \in OneFieldChanged(anchor) :
                   Anchor_save(r, FreshBuffer(Len(account.data))).account.data
                       # account.data
    /\ (call.op = "anker_load" /\ loaded.saved
            /\ Len(account.data) = Len(Anker_serialize(anker)))
          => loaded.record = [ok |-> TRUE, value |-> anker]
    /\ (call.op = "anchor_load" /\ loaded.saved
            /\ Len(account.data) = Len(Anchor_serialize(anchor)))
          => loaded.record = [ok |-> TRUE, value |-> anchor]

\* A record whose fields all differ from the default has been saved into a
\* buffer of its exact length and loaded back.
C9_Witness ==
    /\ call.op = "anker_load" /\ loaded.saved /\ loaded.record.ok
    /\ Len(account.data) = Len(Anker_serialize(anker))
    /\ \A f \in DOMAIN anker : anker[f] # DefaultAnker[f]
    /\ anker.mint_authority_bump_seed # anker.reserve_authority_bump_seed

-----------------------------------------------------------------------------

\* C10: in every derived-account check with program-controlled seeds a
\* failure of the address derivation aborts the call and is never returned
\* as an error value.
C10_DerivationFailureAborts ==
    (call.op \in DerivedOps /\ Called /\ ~Derivation.ok)
        => result.kind = "Abort"

-----------------------------------------------------------------------------
(* C11: every validator leaves the instance record and every supplied     *)
(* account snapshot (address, owner, data) as they were when it was        *)
(* called, when it succeeds and when it fails or aborts at any step.       *)

ValidatorOps ==
    {"check_self_address", "check_mint", "check_is_b_sol_account",
     "check_is_st_sol_account", "check_token_swap",
     "anchor_check_is_b_sol_account", "anchor_check_reserve_account"}
        \cup RoleOps

-----------------------------------------------------------------------------
(* C14, C15: the errors and the diagnostics of the failing paths. *)

\* Whether the pool buffer, after its first byte, unpacks into pool state.
PoolUnpacks(data) == Len(data) >= 1 /\ SwapV1_unpack(Tail(data)).ok

\* The errors SwapV1::unpack returns.
PoolUnpackErrors == {"InvalidAccountData", "UninitializedAccount"}

\* C14: in check_token_swap, once the pool address matches the record,
\* every pool buffer whose contents after the first byte do not unpack (an
\* empty and a one-byte buffer included) makes the call return the
\* pool-unpack error: the call does not abort and no later check runs.
C14_PoolUnpackErrorReturned ==
    (call.op = "check_token_swap" /\ Called
        /\ call.accounts.pool.key = anker.pool
        /\ ~PoolUnpacks(call.accounts.pool.data)) =>
        result.kind \in PoolUnpackErrors

\* C15: no validator returns an error without having emitted a diagnostic
\* in the same call.
C15_ErrorsHaveDiagnostic ==
    (Called /\ call.op \in ValidatorOps /\ result.kind \notin {"Ok", "Abort"}) =>
        result.diag # "none"

-----------------------------------------------------------------------------
(* C16: the bump seed behind the UST reserve check. *)

\* The record with another seed recorded for the UST reserve.
WithUstBump(rec, b) == [rec EXCEPT !.ust_reserve_account_bump_seed = b]

\* The record with another seed recorded for the stSOL reserve.
WithStsolBump(rec, b) == [rec EXCEPT !.stsol_reserve_account_bump_seed = b]

OtherBumps == Bumps \cup {0}

\* C16: records that differ only in ust_reserve_account_bump_seed get the
\* same outcome from check_ust_reserve_address and from check_token_swap
\* on the same inputs.
C16_UstBumpIgnored ==
    /\ (call.op = "check_ust_reserve_address" /\ Called) =>
           \A b \in OtherBumps :
               Anker_check_ust_reserve_address(
                   WithUstBump(anker, b), call.program_id, call.instance,
                   call.acct) = result
    /\ (call.op = "check_token_swap" /\ Called) =>
           \A b \in OtherBumps :
               Anker_check_token_swap(
                   WithUstBump(anker, b), call.program_id, call.accounts)
                   = result

\* The UST reserve check has succeeded on a record whose two reserve seeds
\* differ, and it would not succeed were the stSOL seed another one.
C16_Witness ==
    /\ call.op = "check_ust_reserve_address"
    /\ result = Ok
    /\ anker.stsol_reserve_account_bump_seed
           # anker.ust_reserve_account_bump_seed
    /\ \E b \in Bumps :
           Anker_check_ust_reserve_address(
               WithStsolBump(anker, b), call.program_id, call.instance,
               call.acct) # Ok

-----------------------------------------------------------------------------
(* C18: what a successful check_token_swap has established. *)

\* The addresses of the pool state held by the supplied pool account.
PoolOf(accounts) == SwapV1_unpack(Tail(accounts.pool.data))

\* The conditions of C18 on a bundle whose pool buffer unpacks.
SwapConditions(rec, program_id, accounts) ==
    LET pool == PoolOf(accounts)
        ust == create_program_address(
                   <<accounts.anker.key, ANKER_UST_RESERVE_ACCOUNT,
                     <<rec.stsol_reserve_account_bump_seed>>>>, program_id)
    IN  /\ accounts.pool.key = rec.pool
        /\ ust.ok
        /\ accounts.ust_token.key = ust.key
        /\ accounts.ust_token.key = pool.token_b
        /\ accounts.st_sol_token.key = pool.token_a
        /\ accounts.pool_mint.key = pool.pool_mint
        /\ accounts.st_sol_mint.key = pool.token_a_mint
        /\ accounts.ust_mint.key = pool.token_b_mint
        /\ accounts.pool_fee_account.key = pool.pool_fee_account
        /\ accounts.rewards_destination.key = rec.rewards_destination

-----------------------------------------------------------------------------
(* C12, C13, C17: merge_with_config. *)

\* The entry of the config file under the name of a field, if any.
EntryOf(f) == IF config.some THEN Value_get(config.v.values, f) ELSE None

\* merge_with_config has returned and no getter has run since.
JustMerged == process.state = "merged" /\ got = NoGot

\* The field holds the value of its config entry: the string converted to
\* the field's type, or the number of a numeric entry.
HoldsEntry(f, entry) ==
    IF entry.kind = "String"
    THEN /\ from_str(FieldType[f], entry.s).ok
         /\ opts[f] = Some(from_str(FieldType[f], entry.s).v)
    ELSE /\ FieldType[f] = "u64"
         /\ opts[f] = Some(entry.n)

\* C12: after merge_with_config completes without exiting, every field
\* holds the command-line value if one was given, otherwise the value of
\* the config entry of its name if there is one, otherwise the declared
\* default, and no getter panics.
C12_MergePrecedence ==
    JustMerged =>
        \A f \in FieldNames :
            /\ IF args[f].some THEN opts[f] = args[f]
               ELSE IF EntryOf(f).some THEN HoldsEntry(f, EntryOf(f).v)
               ELSE opts[f] = FieldDefault[f]
            /\ ~getter(opts, f).panic

\* A field set neither on the command line, nor in the config file, nor by
\* a default.
Unresolved(f) ==
    ~args[f].some /\ ~EntryOf(f).some /\ ~FieldDefault[f].some

MissingMessages(f) ==
    {i \in 1..Len(process.stderr) :
        process.stderr[i] = [kind |-> "missing", field |-> f]}

\* C13: merge_with_config exits if and only if some field is unresolved,
\* and when it exits it has printed one missing-field message for each
\* unresolved field.
C13_ExitIffUnresolved ==
    (JustMerged \/ process.state = "exited") =>
        /\ process.state = "exited" <=> \E f \in FieldNames : Unresolved(f)
        /\ process.state = "exited" =>
               \A f \in FieldNames :
                   Unresolved(f) <=> Cardinality(MissingMessages(f)) = 1

\* C17: for a field given on the command line, the round of
\* merge_with_config for that field has the outcome it has without a
\* config file (the field keeps its value, nothing is printed, the process
\* does not exit), whatever the config file holds.
C17_CliFieldIgnoresConfig ==
    (JustMerged \/ process.state = "exited") =>
        \A f \in FieldNames :
            args[f].some =>
                /\ merge_field(f, args, config, Process("merging", FALSE, <<>>))
                       = merge_field(f, args, None,
                                     Process("merging", FALSE, <<>>))
                /\ process.state = "merged" => opts[f] = args[f]

====
